---- MODULE Spec2Model ----
(***************************************************************************)
(* The two scraping notebooks of the workshop, as state machines:          *)
(*   src/us-senate-press-gallery/U.S. Senate Press Gallery - complete.ipynb *)
(*   src/sd-warn/South Dakota WARN notices.ipynb                           *)
(* A run executes the code cells of one notebook top to bottom against a   *)
(* kernel namespace (req, soup, table, rows, ...) and stops at the first   *)
(* cell that raises.  Sessions in which cells are run again, or selected   *)
(* out of order, have specifications of their own.  Text is a sequence of  *)
(* one-character strings.                                                  *)
(***************************************************************************)
EXTENDS Integers, Sequences, FiniteSets, TLC

VARIABLES nb, page, pc, err, gets, defined, req, soup, table, rows, headers,
          csv_headers, data_to_write, idx, file, handle, buf, file0,
          visited, reruns, failed_cell, jumps

vars == <<nb, page, pc, err, gets, defined, req, soup, table, rows, headers,
          csv_headers, data_to_write, idx, file, handle, buf, file0,
          visited, reruns, failed_cell, jumps>>

\* what the person at the notebook has done besides running it top to bottom:
\* the cells run again, the cell that last ended in a NameError, and the
\* cells selected out of order
session == <<reruns, failed_cell, jumps>>

\* ---------------------------------------------------------------- bounds
\* most <tr> elements on a page (all tables together)
MaxTr == 3
\* most <td> elements in one row
MaxCells == 4
\* most <table> elements on a page
MaxTables == 2
\* size of the largest record list handed to the writer on its own: its
\* records, fields and characters counted together
MaxCsvSize == 6
\* most <tr> elements on a page of a session in which cells are run again or
\* out of order
MaxSessionTr == 2
\* most times one cell is run again after a completed run
MaxReruns == 2
\* most times the person leaves the top-to-bottom order and selects a cell
MaxJumps == 2

\* ---------------------------------------------------------------- text
\* what soup.find returns when nothing matches; a table node is <<t>>, the
\* position of the table on the page
None == <<>>

\* characters str.strip() removes at both ends
Whitespace == {" ", "\n", "\t", "\r"}

RECURSIVE lstrip(_)
lstrip(s) ==
    IF s # <<>> /\ Head(s) \in Whitespace THEN lstrip(Tail(s)) ELSE s

RECURSIVE rstrip(_)
rstrip(s) ==
    IF s # <<>> /\ s[Len(s)] \in Whitespace
    THEN rstrip(SubSeq(s, 1, Len(s) - 1))
    ELSE s

\* a mutant of strip: only the leading whitespace goes
strip_leading_only(s) == lstrip(s)

\* str.strip()
strip(s) == rstrip(lstrip(s))

\* ---------------------------------------------------------------- csv
\* the default (excel) dialect of csv.writer / csv.reader
Delimiter == ","
QuoteChar == "\""
LineTerminator == <<"\r", "\n">>

\* QUOTE_MINIMAL: a field is quoted when it holds one of these
NeedsQuote(f) ==
    \E i \in 1..Len(f) : f[i] \in {Delimiter, QuoteChar, "\n", "\r"}

\* doublequote: every quote character inside a quoted field is written twice
RECURSIVE DoubleQuotes(_)
DoubleQuotes(f) ==
    IF f = <<>> THEN <<>>
    ELSE (IF Head(f) = QuoteChar THEN <<QuoteChar, QuoteChar>> ELSE <<Head(f)>>)
         \o DoubleQuotes(Tail(f))

\* a mutant of the writer: fields joined as they are, never quoted
CsvFieldUnquoted(f) == f

\* one field as csv.writer writes it
CsvField(f) ==
    IF NeedsQuote(f) THEN <<QuoteChar>> \o DoubleQuotes(f) \o <<QuoteChar>> ELSE f

RECURSIVE JoinFields(_)
JoinFields(rec) ==
    IF rec = <<>> THEN <<>>
    ELSE IF Len(rec) = 1 THEN CsvField(rec[1])
    ELSE CsvField(rec[1]) \o <<Delimiter>> \o JoinFields(Tail(rec))

\* writer.writerow(rec): the text appended to the file.  A record of one empty
\* field is written as "" so that it differs from an empty record.
writerow(rec) ==
    (IF Len(rec) = 1 /\ rec[1] = <<>> THEN <<QuoteChar, QuoteChar>>
     ELSE JoinFields(rec)) \o LineTerminator

\* a mutant of the write: the row lands in front of what the file holds
PrependRow(text, rec) == writerow(rec) \o text

\* writer.writerow(rec) on the open file: the row goes after what was written
AppendRow(text, rec) == text \o writerow(rec)

\* writer.writerows(recs) on the open file: writerow for each, in list order
RECURSIVE AppendRows(_, _)
AppendRows(text, recs) ==
    IF recs = <<>> THEN text
    ELSE AppendRows(AppendRow(text, Head(recs)), Tail(recs))

\* csv.reader over a file opened with newline='': the character automaton of
\* the excel dialect (doublequote, no escape character, not strict).  EOL is
\* the end-of-line mark the reader feeds after each line of the file.
EOL == "<eol>"

ParseStart == [st |-> "START_RECORD", fields |-> <<>>, cur |-> <<>>, recs |-> <<>>]

SaveField(p) == [p EXCEPT !.fields = Append(p.fields, p.cur), !.cur = <<>>]

AddChar(p, c) == [p EXCEPT !.cur = Append(p.cur, c)]

AfterNewline(c) == IF c = EOL THEN "START_RECORD" ELSE "EAT_CRNL"

ParseStartField(p, c) ==
    IF c \in {"\n", "\r", EOL} THEN [SaveField(p) EXCEPT !.st = AfterNewline(c)]
    ELSE IF c = QuoteChar THEN [p EXCEPT !.st = "IN_QUOTED_FIELD"]
    ELSE IF c = Delimiter THEN [SaveField(p) EXCEPT !.st = "START_FIELD"]
    ELSE [AddChar(p, c) EXCEPT !.st = "IN_FIELD"]

ParseChar(p, c) ==
    CASE p.st = "START_RECORD" ->
           IF c = EOL THEN p
           ELSE IF c \in {"\n", "\r"} THEN [p EXCEPT !.st = "EAT_CRNL"]
           ELSE ParseStartField(p, c)
      [] p.st = "START_FIELD" -> ParseStartField(p, c)
      [] p.st = "IN_FIELD" ->
           IF c \in {"\n", "\r", EOL} THEN [SaveField(p) EXCEPT !.st = AfterNewline(c)]
           ELSE IF c = Delimiter THEN [SaveField(p) EXCEPT !.st = "START_FIELD"]
           ELSE AddChar(p, c)
      [] p.st = "IN_QUOTED_FIELD" ->
           IF c = EOL THEN p
           ELSE IF c = QuoteChar THEN [p EXCEPT !.st = "QUOTE_IN_QUOTED_FIELD"]
           ELSE AddChar(p, c)
      [] p.st = "QUOTE_IN_QUOTED_FIELD" ->
           IF c = QuoteChar THEN [AddChar(p, c) EXCEPT !.st = "IN_QUOTED_FIELD"]
           ELSE IF c = Delimiter THEN [SaveField(p) EXCEPT !.st = "START_FIELD"]
           ELSE IF c \in {"\n", "\r", EOL}
                THEN [SaveField(p) EXCEPT !.st = AfterNewline(c)]
           ELSE [AddChar(p, c) EXCEPT !.st = "IN_FIELD"]
      [] p.st = "EAT_CRNL" ->
           IF c = EOL THEN [p EXCEPT !.st = "START_RECORD"] ELSE p

\* the end of a line of the file: the record is complete when the automaton is
\* back at START_RECORD, else (inside a quoted field) the next line continues it
ParseEol(p) ==
    LET q == ParseChar(p, EOL)
    IN  IF q.st = "START_RECORD"
        THEN [q EXCEPT !.recs = Append(q.recs, q.fields), !.fields = <<>>]
        ELSE q

\* position i of the text ends a line of the file (\n, \r\n or a lone \r)
EndsLine(text, i) ==
    \/ text[i] = "\n"
    \/ text[i] = "\r" /\ ~(i < Len(text) /\ text[i + 1] = "\n")

\* the automaton fed from position i until a record is complete or the text
\* ends: the automaton then, and the position after
RECURSIVE ParseRecord(_, _, _)
ParseRecord(text, i, p) ==
    IF i > Len(text) THEN [p |-> p, i |-> i]
    ELSE LET q == ParseChar(p, text[i])
             r == IF EndsLine(text, i) THEN ParseEol(q) ELSE q
         IN  IF Len(r.recs) > Len(p.recs) THEN [p |-> r, i |-> i + 1]
             ELSE ParseRecord(text, i + 1, r)

\* the end of the file: a last line without a line end is closed, and a
\* record cut short (inside a quoted field) is returned as far as it got
ParseEnd(text, p) ==
    LET q == IF Len(text) > 0 /\ ~EndsLine(text, Len(text))
             THEN ParseEol(p) ELSE p
    IN  IF q.st = "START_RECORD" THEN q
        ELSE [q EXCEPT !.recs = Append(q.recs, Append(q.fields, q.cur))]

RECURSIVE ParseFrom(_, _, _)
ParseFrom(text, i, p) ==
    IF i > Len(text) THEN ParseEnd(text, p)
    ELSE LET s == ParseRecord(text, i, p)
         IN  ParseFrom(text, s.i, s.p)

\* list(csv.reader(f)): the records of a file's text
CsvReader(text) == ParseFrom(text, 1, ParseStart).recs

\* ---------------------------------------------------------------- the page
\* A page is the sequence of its <table> elements in document order, a table
\* the sequence of its <tr> elements, a row its number of <td> cells.  A
\* header row of <th> cells has no <td>.  The tables stand side by side: none
\* is nested in a cell of another.
Rows == [n : 0..MaxCells]

TablesOfSize(k) == [1..k -> Rows]

\* the pages of exactly k tables with at most budget rows in all
RECURSIVE PagesOf(_, _)
PagesOf(k, budget) ==
    IF k = 0 THEN {<<>>}
    ELSE UNION {{<<tb>> \o rest : tb \in TablesOfSize(sz),
                                  rest \in PagesOf(k - 1, budget - sz)}
                : sz \in 0..budget}

Pages == UNION {PagesOf(k, MaxTr) : k \in 0..MaxTables}

\* the raw cell texts of the sample pages: padded with whitespace, holding the
\* delimiter, the quote character, an inner line break, or blank
RawTexts ==
    << <<" ", " ", "A", " ", "C", " ", "\n">>,
       <<"b", ",">>,
       <<"\t", "\"", "c">>,
       <<"d", "\n", "e", " ">>,
       <<" ", "\n">> >>

\* tag.text of the k-th <td> of the row at node <<t, r>>: the sample pages
\* take the texts in turn, so that neighbouring cells and rows differ
CellText(node, k) == RawTexts[((node[1] + node[2] + k) % Len(RawTexts)) + 1]

\* the sample pages put the link to the report in a cell after the third
HasLink(row) == row.n > 3

\* a row node is its position <<table, row>> on the page
RowAt(pg, node) == pg[node[1]][node[2]]

\* a mutant of the lookup: the last table of the page
find_last_table(pg) == IF pg = <<>> THEN None ELSE <<Len(pg)>>

\* soup.find('table'): the first table of the page, or None
find_table(pg) == IF pg = <<>> THEN None ELSE <<1>>

\* table.find_all('tr'): the row nodes of one table in document order
find_all_tr(pg, t) == [r \in 1..Len(pg[t[1]]) |-> <<t[1], r>>]

\* lst[1:]
SliceFrom1(lst) == IF lst = <<>> THEN <<>> ELSE Tail(lst)

\* a mutant of the loop body: a field for every cell of the row
SenateRecordAllCells(node) ==
    [k \in 1..RowAt(page, node).n |-> strip(CellText(node, k))]

\* the record the Senate loop body builds from the row at a node (a row of at
\* least 3 cells)
SenateRecord(node) ==
    <<strip(CellText(node, 1)), strip(CellText(node, 2)), strip(CellText(node, 3))>>

\* the header lists the notebooks declare
SenateHeaders == << <<"first">>, <<"last">>, <<"affiliation">> >>

SdHeaders ==
    << <<"company">>, <<"location">>, <<"date">>, <<"employees_laid_off">>, <<"url">> >>

\* ---------------------------------------------------------------- the run
\* the code cells of each notebook that change the kernel or the disk, in
\* notebook order
Cells(n) ==
    IF n = "senate" THEN <<"import", "headers", "fetch", "parse", "write">>
    ELSE <<"import", "fetch", "soup", "find_table", "find_rows", "extract",
           "csv_headers", "write">>

\* the names the import cell binds
Modules == {"csv", "requests", "bs4"}

\* the names a cell reads that another cell binds
Reads(n, c) ==
    IF n = "senate"
    THEN CASE c = "fetch" -> {"requests"}
           [] c = "parse" -> {"bs4", "req"}
           [] c = "write" -> {"csv", "headers", "rows"}
           [] OTHER -> {}
    ELSE CASE c = "fetch" -> {"requests"}
           [] c = "soup" -> {"bs4", "req"}
           [] c = "find_table" -> {"soup"}
           [] c = "find_rows" -> {"table"}
           [] c = "extract" -> {"rows"}
           [] c = "write" -> {"csv", "csv_headers", "data_to_write"}
           [] OTHER -> {}

\* a mutant of the kernel: every name is taken as bound
CanReadAlways == TRUE

\* the cell can run without a NameError
CanRead == Reads(nb, pc) \subseteq defined

\* the cell run after cell c; "done" after the last
NextCell(n, c) ==
    LET k == CHOOSE j \in 1..Len(Cells(n)) : Cells(n)[j] = c
    IN  IF k = Len(Cells(n)) THEN "done" ELSE Cells(n)[k + 1]

\* a file is its text and the encoding the text was written in
NoFile == [exists |-> FALSE, text |-> <<>>, encoding |-> ""]

\* what a file of an earlier run may hold
OldFile ==
    [exists |-> TRUE, text |-> writerow(<< <<"old">> >>), encoding |-> "utf-8"]

\* req before the fetch cell has run (the name is not in defined)
NoResponse == [status_code |-> "", text |-> <<>>]

\* the kernel is fresh: no name is defined, and the value kept for a name
\* outside defined is never read
Init ==
    /\ nb \in {"senate", "sdwarn"}
    /\ page \in Pages
    /\ pc = Cells(nb)[1]
    /\ err = "none"
    /\ gets = 0
    /\ defined = {}
    /\ req = NoResponse
    /\ soup = <<>>
    /\ table = None
    /\ rows = <<>>
    /\ headers = <<>>
    /\ csv_headers = <<>>
    /\ data_to_write = <<>>
    /\ idx = 0
    /\ file0 \in {NoFile, OldFile}
    /\ file = file0
    /\ handle = "none"
    /\ buf = <<>>
    /\ visited = <<>>
    /\ reruns = [c \in {"extract", "write"} |-> 0]
    /\ failed_cell = "none"
    /\ jumps = 0

\* a cell raised: the run stops there
Raise(e) == /\ err' = e
            /\ pc' = "error"

\* a cell ended normally: the next one runs
Advance == /\ pc' = NextCell(nb, pc)
           /\ err' = err

\* cells 4c67ce4d and the import cell of the WARN notebook: import csv,
\* requests, bs4
ImportCell ==
    /\ pc = "import"
    /\ defined' = defined \cup Modules
    /\ Advance
    /\ UNCHANGED <<nb, page, gets, req, soup, table, rows, headers, csv_headers,
                   data_to_write, idx, file, handle, buf, file0,
                   visited, session>>

\* Senate cell 99adeb32: headers = [...]
SenateHeadersCell ==
    /\ nb = "senate" /\ pc = "headers"
    /\ headers' = SenateHeaders
    /\ Advance
    /\ defined' = defined \cup {"headers"}
    /\ UNCHANGED <<nb, page, gets, req, soup, table, rows, csv_headers,
                   data_to_write, idx, file, handle, buf, file0,
                   visited, session>>

\* a mutant of the fetch: a transport failure is swallowed
FetchNeverRaises(outcome) == FALSE

\* requests.get raises on a transport failure only; there is no
\* raise_for_status(), so a response of any status is returned
FetchRaises(outcome) == outcome = "transport"

\* cells a9744eb7 and 2e58b9d4: req = requests.get(url), the request is sent.
\* No timeout is passed: the call waits for the server as long as it takes.
FetchCell ==
    /\ pc = "fetch" /\ CanRead
    /\ gets' = gets + 1
    /\ pc' = "fetch_wait"
    /\ UNCHANGED <<nb, page, err, defined, req, soup, table, rows, headers,
                   csv_headers, data_to_write, idx, file, handle, buf, file0,
                   visited, session>>

\* requests.get returns.  The server answers with a status and a body, or the
\* transport fails and requests.get raises.  No raise_for_status(): a response
\* of any status is stored and the cell ends normally.
FetchReturn ==
    /\ pc = "fetch_wait"
    /\ gets' = gets
    /\ \E outcome \in {"200", "404", "transport"} :
         IF FetchRaises(outcome)
         THEN /\ Raise("ConnectionError")
              /\ req' = req
              /\ defined' = defined
         ELSE /\ req' = [status_code |-> outcome, text |-> page]
              /\ defined' = defined \cup {"req"}
              /\ pc' = NextCell(nb, "fetch")
              /\ err' = err
    /\ UNCHANGED <<nb, page, soup, table, rows, headers, csv_headers,
                   data_to_write, idx, file, handle, buf, file0,
                   visited, session>>

\* a mutant of the lookup: a missing table is reported as such
TableNotFoundError == "TableNotFound"

\* what table.find_all raises when table is None: 'NoneType' object has no
\* attribute 'find_all'
NoneFindAllError == "AttributeError"

\* Senate cell 8e710003: soup, table, rows in one cell.  table is None on a
\* page without a table, and None.find_all raises AttributeError after soup
\* and table were assigned.
SenateParseCell ==
    /\ nb = "senate" /\ pc = "parse" /\ CanRead
    /\ soup' = req.text
    /\ table' = find_table(req.text)
    /\ IF find_table(req.text) = None
       THEN /\ Raise(NoneFindAllError)
            /\ rows' = rows
            /\ defined' = defined \cup {"soup", "table"}
       ELSE /\ rows' = SliceFrom1(find_all_tr(req.text, find_table(req.text)))
            /\ defined' = defined \cup {"soup", "table", "rows"}
            /\ Advance
    /\ UNCHANGED <<nb, page, gets, req, headers, csv_headers, data_to_write,
                   idx, file, handle, buf, file0,
                   visited, session>>

\* the encodings locale.getpreferredencoding() answers with on the platforms
\* a notebook runs on
LocaleEncodings == {"utf-8", "cp1252"}

\* the encoding open() writes in: the encoding argument, or the locale's when
\* the call passes none ("")
OpenEncoding(arg, locale) == IF arg = "" THEN locale ELSE arg

\* a mutant of open: mode 'a', what the file held stays
OpenAppend(f, enc) == [exists |-> TRUE, text |-> f.text, encoding |-> enc]

\* open(name, 'w', newline=''): the file is created, or truncated to nothing
OpenWrite(f, enc) == [exists |-> TRUE, text |-> <<>>, encoding |-> enc]

\* a mutant of the with block: the handle stays as it was
WithExitLeavesOpen(h) == h

\* leaving "with open(...) as outfile", normally or by an error: the handle
\* is closed
WithExit(h) == "closed"

\* a mutant of the loop: every other row is passed over
LoopSkips(i) == i + 2

\* "for row in rows": the next pass takes the next row
LoopNext(i) == i + 1

\* a mutant of the close: what is still in the buffer is lost
CloseDropsBuffer(f, b) == f

\* leaving the with block, normally or by an error: the buffered text is
\* flushed to the file and the handle closed
CloseFlush(f, b) == [f EXCEPT !.text = @ \o b]

\* a mutant of the index check: only cells[0] and cells[1] are looked at
RaisesIndexErrorBelow2(row) == row.n < 2

\* cells[0], cells[1], cells[2] on the <td> list of a row: IndexError when the
\* row has fewer than 3 cells
RaisesIndexError(row) == row.n < 3

\* Senate cell e65af642, up to the loop: open the file (OSError leaves the
\* disk alone and ends the run), create the writer, write the header row
SenateWriteOpen ==
    /\ nb = "senate" /\ pc = "write" /\ CanRead
    /\ \E ok \in BOOLEAN, locale \in LocaleEncodings :
         IF ok
         THEN /\ file' = OpenWrite(file, OpenEncoding("", locale))
              /\ handle' = "open"
              /\ buf' = AppendRow(<<>>, headers)
              /\ idx' = 1
              /\ visited' = <<>>
              /\ pc' = "write_loop"
              /\ err' = err
         ELSE /\ Raise("OSError")
              /\ UNCHANGED <<file, handle, buf, idx, visited>>
    /\ UNCHANGED <<nb, page, gets, defined, req, soup, table, rows, headers,
                   csv_headers, data_to_write, file0, session>>

\* Senate cell e65af642, one pass of "for row in rows": the record of the row
\* is written, or the cell indexing raises and the with block closes the file
\* as the error leaves it
SenateWriteRow ==
    /\ nb = "senate" /\ pc = "write_loop"
    /\ idx <= Len(rows)
    /\ visited' = Append(visited, rows[idx])
    /\ IF RaisesIndexError(RowAt(soup, rows[idx]))
       THEN /\ Raise("IndexError")
            /\ file' = CloseFlush(file, buf)
            /\ buf' = <<>>
            /\ handle' = WithExit(handle)
            /\ idx' = idx
       ELSE /\ buf' = AppendRow(buf, SenateRecord(rows[idx]))
            /\ idx' = LoopNext(idx)
            /\ UNCHANGED <<pc, err, file, handle>>
    /\ UNCHANGED <<nb, page, gets, defined, req, soup, table, rows, headers,
                   csv_headers, data_to_write, file0, session>>

\* Senate cell e65af642, the loop is exhausted: the with block closes the file
SenateWriteExit ==
    /\ nb = "senate" /\ pc = "write_loop"
    /\ idx > Len(rows)
    /\ file' = CloseFlush(file, buf)
    /\ buf' = <<>>
    /\ handle' = WithExit(handle)
    /\ pc' = "done"
    /\ UNCHANGED <<nb, page, err, gets, defined, req, soup, table, rows,
                   headers, csv_headers, data_to_write, idx, file0,
                   visited, session>>

\* WARN cell 1ccd4752: soup = bs4.BeautifulSoup(req.text, 'html.parser')
SdSoupCell ==
    /\ nb = "sdwarn" /\ pc = "soup" /\ CanRead
    /\ soup' = req.text
    /\ Advance
    /\ defined' = defined \cup {"soup"}
    /\ UNCHANGED <<nb, page, gets, req, table, rows, headers, csv_headers,
                   data_to_write, idx, file, handle, buf, file0,
                   visited, session>>

\* WARN cell 2b551486: table = soup.find('table'); None is stored silently
SdFindTableCell ==
    /\ nb = "sdwarn" /\ pc = "find_table" /\ CanRead
    /\ table' = find_table(soup)
    /\ Advance
    /\ defined' = defined \cup {"table"}
    /\ UNCHANGED <<nb, page, gets, req, soup, rows, headers, csv_headers,
                   data_to_write, idx, file, handle, buf, file0,
                   visited, session>>

\* WARN cell edb3d857: rows = table.find_all('tr'), every row of the table,
\* the first one included; AttributeError when table is None
SdFindRowsCell ==
    /\ nb = "sdwarn" /\ pc = "find_rows" /\ CanRead
    /\ IF table = None
       THEN /\ Raise(NoneFindAllError)
            /\ rows' = rows
            /\ defined' = defined
       ELSE /\ rows' = find_all_tr(soup, table)
            /\ defined' = defined \cup {"rows"}
            /\ Advance
    /\ UNCHANGED <<nb, page, gets, req, soup, table, headers, csv_headers,
                   data_to_write, idx, file, handle, buf, file0,
                   visited, session>>

\* WARN cell 1b664e6b: data_to_write = [] and "for row in rows" over the
\* whole list, whose body is print(row) and comments: every row is visited and
\* nothing is appended to the list
SdExtractCell ==
    /\ nb = "sdwarn" /\ pc = "extract" /\ CanRead
    /\ data_to_write' = <<>>
    /\ visited' = rows
    /\ Advance
    /\ defined' = defined \cup {"data_to_write"}
    /\ UNCHANGED <<nb, page, gets, req, soup, table, rows, headers,
                   csv_headers, idx, file, handle, buf, file0, session>>

\* WARN cell 2062551a: csv_headers = [...]
SdHeadersCell ==
    /\ nb = "sdwarn" /\ pc = "csv_headers"
    /\ csv_headers' = SdHeaders
    /\ Advance
    /\ defined' = defined \cup {"csv_headers"}
    /\ UNCHANGED <<nb, page, gets, req, soup, table, rows, headers,
                   data_to_write, idx, file, handle, buf, file0,
                   visited, session>>

\* WARN cell e53c6d09: open, writerow(csv_headers), writerows(data_to_write)
\* and close in one with block with no step that can raise in between
SdWriteCell ==
    /\ nb = "sdwarn" /\ pc = "write" /\ CanRead
    /\ \E ok \in BOOLEAN, locale \in LocaleEncodings :
         IF ok
         THEN /\ file' = CloseFlush(OpenWrite(file, OpenEncoding("utf-8", locale)),
                             AppendRows(AppendRow(<<>>, csv_headers), data_to_write))
              /\ handle' = WithExit("open")
              /\ Advance
         ELSE /\ Raise("OSError")
              /\ UNCHANGED <<file, handle>>
    /\ UNCHANGED <<nb, page, gets, defined, req, soup, table, rows, headers,
                   csv_headers, data_to_write, idx, buf, file0,
                   visited, session>>

Next ==
    \/ ImportCell
    \/ SenateHeadersCell
    \/ FetchCell
    \/ FetchReturn
    \/ SenateParseCell
    \/ SenateWriteOpen
    \/ SenateWriteRow
    \/ SenateWriteExit
    \/ SdSoupCell
    \/ SdFindTableCell
    \/ SdFindRowsCell
    \/ SdExtractCell
    \/ SdHeadersCell
    \/ SdWriteCell

Spec == Init /\ [][Next]_vars

\* the pages of the runs followed to their end: no table or one, each row
\* one cell short of a record or just wide enough
LivePages ==
    {pg \in Pages : /\ Len(pg) <= 1
                    /\ \A t \in 1..Len(pg) :
                           \A r \in 1..Len(pg[t]) : pg[t][r].n \in {2, 3}}

InitLive == Init /\ page \in LivePages

\* the run when the kernel keeps executing the cells in turn and every HTTP
\* request is answered or fails in the end
SpecLive == InitLive /\ [][Next]_vars /\ WF_vars(Next)

\* every step of a run but the return of requests.get
NextButReturn ==
    \/ ImportCell
    \/ SenateHeadersCell
    \/ FetchCell
    \/ SenateParseCell
    \/ SenateWriteOpen
    \/ SenateWriteRow
    \/ SenateWriteExit
    \/ SdSoupCell
    \/ SdFindTableCell
    \/ SdFindRowsCell
    \/ SdExtractCell
    \/ SdHeadersCell
    \/ SdWriteCell

\* ---------------------------------------------------------------- cells run again
\* the pages of a session: one table at most
SessionPages == UNION {PagesOf(k, MaxSessionTr) : k \in 0..1}

InitSession == Init /\ page \in SessionPages

\* the cells worth running again after a run: the one that collects the data
\* and the one that writes it
RerunCells(n) == IF n = "senate" THEN {"write"} ELSE {"extract", "write"}

\* after a completed run the cell is selected and run once more; the kernel
\* keeps every name, and the cells below it follow top to bottom
Rerun ==
    /\ pc = "done"
    /\ \E c \in RerunCells(nb) :
         /\ reruns[c] < MaxReruns
         /\ reruns' = [reruns EXCEPT ![c] = @ + 1]
         /\ pc' = c
    /\ UNCHANGED <<nb, page, err, gets, defined, req, soup, table, rows,
                   headers, csv_headers, data_to_write, idx, file, handle, buf,
                   file0, visited, failed_cell, jumps>>

NextRerun == Next \/ Rerun

SpecRerun == InitSession /\ [][NextRerun]_vars

\* ---------------------------------------------------------------- cells in any order
\* the kernel is idle and the person selects a cell to run next, any cell of
\* the notebook but the one the top-to-bottom order has reached; what the
\* cells run before left in the kernel stays
Select ==
    /\ pc \notin {"fetch_wait", "write_loop"}
    /\ jumps < MaxJumps
    /\ jumps' = jumps + 1
    /\ \E c \in {Cells(nb)[j] : j \in 1..Len(Cells(nb))} \ {pc} : pc' = c
    /\ err' = "none"
    /\ UNCHANGED <<nb, page, gets, defined, req, soup, table, rows, headers,
                   csv_headers, data_to_write, idx, file, handle, buf, file0,
                   visited, reruns, failed_cell>>

\* a cell whose first statement reads a name no cell has bound yet:
\* NameError, and the kernel is as before
NameErrorCell ==
    /\ pc \in {"fetch", "parse", "soup", "find_table", "find_rows"}
    /\ ~CanRead
    /\ Raise("NameError")
    /\ failed_cell' = pc
    /\ UNCHANGED <<nb, page, gets, defined, req, soup, table, rows, headers,
                   csv_headers, data_to_write, idx, file, handle, buf, file0,
                   visited, reruns, jumps>>

\* WARN cell 1b664e6b before rows is bound: data_to_write = [] is assigned,
\* then "for row in rows" raises NameError
ExtractNameError ==
    /\ nb = "sdwarn" /\ pc = "extract"
    /\ ~CanRead
    /\ data_to_write' = <<>>
    /\ defined' = defined \cup {"data_to_write"}
    /\ Raise("NameError")
    /\ failed_cell' = pc
    /\ UNCHANGED <<nb, page, gets, req, soup, table, rows, headers,
                   csv_headers, idx, file, handle, buf, file0, visited, reruns,
                   jumps>>

\* the name of the header list in each notebook
HeaderName(n) == IF n = "senate" THEN "headers" ELSE "csv_headers"

\* what a write cell has written when it meets a name that is not bound: the
\* file is open by then; csv.writer and writerow(header list) come first, the
\* rows after the header row
WrittenBeforeNameError ==
    IF {"csv", HeaderName(nb)} \subseteq defined
    THEN AppendRow(<<>>, IF nb = "senate" THEN headers ELSE csv_headers)
    ELSE <<>>

\* cells e65af642 and e53c6d09 before all their names are bound: open()
\* truncates the file (or fails), the NameError leaves the with block and the
\* file is closed with what was written until then
WriteNameError ==
    /\ pc = "write"
    /\ ~CanRead
    /\ \E ok \in BOOLEAN, locale \in LocaleEncodings :
         IF ok
         THEN /\ file' = CloseFlush(
                           OpenWrite(file,
                                     OpenEncoding(IF nb = "senate" THEN ""
                                                  ELSE "utf-8", locale)),
                           WrittenBeforeNameError)
              /\ handle' = WithExit("open")
              /\ Raise("NameError")
              /\ failed_cell' = pc
         ELSE /\ Raise("OSError")
              /\ UNCHANGED <<file, handle, failed_cell>>
    /\ UNCHANGED <<nb, page, gets, defined, req, soup, table, rows, headers,
                   csv_headers, data_to_write, idx, buf, file0, visited, reruns,
                   jumps>>

NextKernel ==
    \/ Next
    \/ Select
    \/ NameErrorCell
    \/ ExtractNameError
    \/ WriteNameError

\* the pages of these sessions: one table at most, each row one cell short of
\* a record or just wide enough
InitKernel == Init /\ page \in SessionPages \cap LivePages

SpecKernel == InitKernel /\ [][NextKernel]_vars

\* ---------------------------------------------------------------- the writer alone
\* The write cell of the WARN notebook on any list data_to_write may hold once
\* the loop body of the extraction cell is filled in.
CsvChars == {"a", ",", "\"", "\n", "\r"}

\* the texts over CsvChars of exactly n characters
RECURSIVE TextsOfLen(_)
TextsOfLen(n) ==
    IF n = 0 THEN {<<>>}
    ELSE {<<c>> \o t : c \in CsvChars, t \in TextsOfLen(n - 1)}

\* the size of a record: its fields and their characters
RECURSIVE RecordSize(_)
RecordSize(rec) ==
    IF rec = <<>> THEN 0 ELSE 1 + Len(Head(rec)) + RecordSize(Tail(rec))

\* the records of size at most b
RECURSIVE RecordsUpTo(_)
RecordsUpTo(b) ==
    IF b <= 0 THEN {<<>>}
    ELSE {<<>>} \cup UNION {{<<f>> \o r : f \in TextsOfLen(l), r \in RecordsUpTo(b - 1 - l)}
                       : l \in 0..(b - 1)}

\* the record lists of size at most b
RECURSIVE ListsUpTo(_)
ListsUpTo(b) ==
    IF b <= 0 THEN {<<>>}
    ELSE {<<>>} \cup UNION {{<<rec>> \o rest : rest \in ListsUpTo(b - 1 - RecordSize(rec))}
                       : rec \in RecordsUpTo(b - 1)}

InitCsv ==
    /\ nb = "sdwarn"
    /\ page = << <<>> >>
    /\ pc = "write"
    /\ err = "none"
    /\ gets = 1
    /\ defined = Modules \cup {"req", "soup", "table", "rows", "data_to_write",
                              "csv_headers"}
    /\ req = [status_code |-> "200", text |-> page]
    /\ soup = page
    /\ table = <<1>>
    /\ rows = <<>>
    /\ headers = <<>>
    /\ csv_headers = SdHeaders
    /\ data_to_write \in ListsUpTo(MaxCsvSize)
    /\ idx = 0
    /\ file0 \in {NoFile, OldFile}
    /\ file = file0
    /\ handle = "none"
    /\ buf = <<>>
    /\ visited = <<>>
    /\ reruns = [c \in {"extract", "write"} |-> 0]
    /\ failed_cell = "none"
    /\ jumps = 0

NextCsv == SdWriteCell

SpecCsv == InitCsv /\ [][NextCsv]_vars

\* ---------------------------------------------------------------- properties
\* the records a standard CSV reader finds in the file
FileRecords == CsvReader(file.text)

\* the records written through the handle so far, flushed or still buffered
Written == CsvReader(file.text \o buf)

\* the header list the notebook of this run declares
DeclaredHeaders == IF nb = "senate" THEN SenateHeaders ELSE SdHeaders

\* out is raw without its leading and trailing whitespace, the inside as it is
IsTrimOf(out, raw) ==
    \E i \in 0..Len(raw), j \in 0..Len(raw) :
        /\ i <= j
        /\ out = SubSeq(raw, i + 1, j)
        /\ \A k \in 1..i : raw[k] \in Whitespace
        /\ \A k \in (j + 1)..Len(raw) : raw[k] \in Whitespace
        /\ out # <<>> => out[1] \notin Whitespace /\ out[Len(out)] \notin Whitespace

\* the trimmed text of the first three cells of the k-th row of the table
TrimmedRow(k) ==
    <<strip(CellText(<<1, k>>, 1)), strip(CellText(<<1, k>>, 2)),
      strip(CellText(<<1, k>>, 3))>>

\* C1: after a completed run over a page whose table has a header row and N
\* data rows, the file holds the header and exactly N data rows, as many
\* records as the table has rows.
C1_RowCount ==
    (pc = "done" /\ req.status_code = "200" /\ Len(page[1]) >= 1)
        => Len(FileRecords) = Len(page[1])

\* C2: in every state of every run that has opened the output file, the header
\* is the first record written and the data records follow in the document
\* order of the rows they came from: the record at position k comes from the
\* k-th row of the table.
C2_HeaderFirstRowsInOrder ==
    handle # "none" =>
        LET w == Written
        IN  /\ Len(w) >= 1
            /\ w[1] = DeclaredHeaders
            /\ \A k \in 2..Len(w) :
                   /\ nb = "senate"
                   /\ k <= Len(page[1])
                   /\ w[k] = TrimmedRow(k)

\* two data rows were written after the header
C2_Witness ==
    /\ nb = "senate" /\ pc = "done"
    /\ Len(FileRecords) >= 3
    /\ FileRecords[2] # FileRecords[3]

\* C3: every record of the file a run has written and closed has as many
\* fields as the declared header list, 3 in the Senate notebook and 5 in the
\* WARN notebook, whatever the number of cells of the row.
C3_FieldCount ==
    handle = "closed" =>
        LET recs == FileRecords
        IN  \A k \in 1..Len(recs) :
                Len(recs[k]) = (IF nb = "senate" THEN 3 ELSE 5)

\* a row of more than 3 cells was written
C3_Witness ==
    /\ nb = "senate" /\ pc = "done"
    /\ \E j \in 1..Len(rows) :
           RowAt(page, rows[j]).n > 3 /\ Len(FileRecords) >= j + 1

\* C4: every field of every data record of the written file is the text of
\* the cell at its position in the row, without leading and trailing
\* whitespace and with the inside unchanged.
C4_FieldsTrimmed ==
    handle = "closed" =>
        LET recs == FileRecords
        IN  \A k \in 2..Len(recs) :
                \A c \in 1..Len(recs[k]) :
                    IsTrimOf(recs[k][c], CellText(<<1, k>>, c))

\* a cell padded on both sides was written with its inner space kept
C4_Witness ==
    /\ nb = "senate" /\ pc = "done"
    /\ \E k \in 2..Len(FileRecords) :
           \E c \in 1..3 :
               /\ CellText(<<1, k>>, c) = <<" ", " ", "A", " ", "C", " ", "\n">>
               /\ FileRecords[k][c] = <<"A", " ", "C">>

\* the address of the WARN page
PageUrl ==
    [origin |-> "https://dlr.sd.gov",
     path |-> "/workforce_services/businesses/warn_notices.aspx"]

\* urljoin(base, ref) for a reference that starts at the root of the site
urljoin(base, ref) == base.origin \o ref

\* C5: in a completed WARN run every data row has a record whose url field is
\* the row's link resolved against the page address, or empty when the row
\* has no link.
C5_UrlField ==
    (/\ nb = "sdwarn" /\ pc = "done" /\ req.status_code = "200"
     /\ \A r \in 2..Len(page[1]) : page[1][r].n >= 3) =>
        \A r \in 2..Len(page[1]) :
            /\ Len(FileRecords) >= r
            /\ Len(FileRecords[r]) = 5
            /\ FileRecords[r][5] = (IF HasLink(page[1][r])
                                    THEN <<urljoin(PageUrl, "/docs/report.pdf")>>
                                    ELSE <<>>)

\* C6: the records a standard CSV reader finds in the written file are the
\* header followed by the records handed to the writer, field for field and
\* in order, also when fields hold the delimiter, the quote character or a
\* line break.
C6_RoundTrip ==
    pc = "done" => FileRecords = <<csv_headers>> \o data_to_write

\* a list with a delimiter, a quote character and a line break was written
C6_Witness ==
    /\ pc = "done"
    /\ \A ch \in {",", "\"", "\n"} :
           \E i \in 1..Len(data_to_write) :
               \E j \in 1..Len(data_to_write[i]) :
                   \E k \in 1..Len(data_to_write[i][j]) :
                       data_to_write[i][j][k] = ch

\* C7: a completed WARN run on a page with one table of a header row and two
\* data rows leaves a file of the header company,location,date,
\* employees_laid_off,url and two data rows holding the trimmed cell texts.
C7_EndToEnd ==
    (/\ nb = "sdwarn" /\ pc = "done" /\ req.status_code = "200"
     /\ Len(page) = 1 /\ Len(page[1]) = 3
     /\ page[1][2].n >= 4 /\ page[1][3].n >= 4) =>
        /\ Len(FileRecords) = 3
        /\ FileRecords[1] = SdHeaders
        /\ \A r \in 2..3 :
               \A c \in 1..4 : IsTrimOf(FileRecords[r][c], CellText(<<1, r>>, c))

\* C8 as stated: a run on a page without a table ends in a "table not found"
\* outcome of its own and writes no file.
C8_TableNotFoundSignalled ==
    ("req" \in defined /\ req.text = <<>> /\ pc \in {"done", "error"}) =>
        /\ err = "TableNotFound"
        /\ file = file0

\* C8 amended: on a page without a table the lookup stores None without a
\* signal; the run ends in the AttributeError that the row enumeration raises
\* on None, the rows are never assigned, and the file is not touched.
C8_NoTableEndsInAttributeError ==
    ("req" \in defined /\ req.text = <<>>) =>
        /\ file = file0
        /\ handle = "none"
        /\ pc # "done"
        /\ pc = "error" =>
               /\ err = "AttributeError"
               /\ "table" \in defined /\ table = None
               /\ "rows" \notin defined

\* a WARN run stopped in the cell after the lookup
C8_Witness ==
    /\ nb = "sdwarn" /\ page = <<>>
    /\ pc = "error" /\ err = "AttributeError"
    /\ "table" \in defined

\* C9 as stated: one GET per run, and after a response with a non-success
\* status or a transport failure nothing is parsed and no file is opened.
C9_FailedFetchAborts ==
    /\ gets <= 1
    /\ ("req" \in defined /\ req.status_code # "200") =>
           ("soup" \notin defined /\ handle = "none")
    /\ err = "ConnectionError" => ("soup" \notin defined /\ handle = "none")

\* C9 amended: one GET per run and never a second.  A transport failure ends
\* the run in the fetch cell: no response is stored, nothing is parsed, the
\* file is not touched.  A response is stored whatever its status, and a run
\* that ends in an error after a non-success status ends in an error of a
\* later step, not of the fetch.
C9_OnlyTransportFailureAborts ==
    /\ gets = (IF pc \in {"import", "headers", "fetch"} THEN 0 ELSE 1)
    /\ err = "ConnectionError" =>
           /\ pc = "error"
           /\ defined \cap {"req", "soup", "table", "rows"} = {}
           /\ file = file0 /\ handle = "none"
    /\ "req" \in defined =>
           /\ req.status_code \in {"200", "404"}
           /\ req.text = page
           /\ err # "ConnectionError"

\* after a 404 the run parsed the body and wrote the file
C9_Witness ==
    /\ "req" \in defined /\ req.status_code = "404"
    /\ pc = "done" /\ handle = "closed"
    /\ Len(FileRecords) >= 1

\* C10 as stated: whenever a run has ended in an error, the destination file
\* is as it was before the run.
C10_NoPartialOutput ==
    pc = "error" => file = file0

\* C10 amended: a run that ended in an error of the fetch, of the table lookup
\* or of opening the file leaves the file as it was; a run of the Senate
\* notebook that ended in the IndexError of a row with fewer than 3 cells
\* leaves the file created or truncated, holding the header and the records of
\* all earlier rows.
C10_PartialOnlyAfterRowError ==
    pc = "error" =>
        IF err = "IndexError"
        THEN /\ nb = "senate"
             /\ file.exists /\ file # file0
             /\ handle = "closed"
             /\ FileRecords =
                    <<SenateHeaders>> \o [j \in 1..(idx - 1) |-> TrimmedRow(j + 1)]
        ELSE file = file0 /\ handle = "none"

\* a Senate run over an existing file stopped at a short row after a record
C10_Witness ==
    /\ pc = "error" /\ err = "IndexError"
    /\ file0.exists
    /\ Len(FileRecords) >= 2

\* the records the write cell is given: the rows of the Senate table after the
\* first, or the list the WARN extraction cell collected
GivenRecords ==
    IF nb = "senate" THEN [j \in 1..Len(rows) |-> TrimmedRow(j + 1)]
    ELSE data_to_write

\* C11: whenever the write cell has completed, the first time or run again on
\* the same rows, the file holds the header once and then each record once,
\* whatever it held before: the write truncates and never appends.
C11_WriteOverwrites ==
    pc = "done" => FileRecords = <<DeclaredHeaders>> \o GivenRecords

\* the Senate write cell ran three times over a file that existed before
C11_Witness ==
    /\ nb = "senate" /\ pc = "done"
    /\ reruns["write"] = 2
    /\ file0.exists
    /\ Len(rows) >= 1
    /\ Len(FileRecords) = Len(rows) + 1

\* C12: the file a notebook has written is UTF-8 encoded on every platform,
\* and its line ends are the writer's own (\r\n), not translated.
C12_Utf8OnEveryPlatform ==
    handle = "closed" =>
        /\ file.encoding = "utf-8"
        /\ Len(file.text) >= 2
        /\ SubSeq(file.text, Len(file.text) - 1, Len(file.text)) = LineTerminator

\* C13: the file is open only while the write cell runs its loop.  Once the
\* cell has finished, normally or by the error of a row, the handle is closed;
\* before the cell, and after a run that ended in any other error, the file
\* was never opened.
C13_HandleScoped ==
    /\ handle = "open" <=> pc = "write_loop"
    /\ pc = "done" => handle = "closed"
    /\ pc = "error" => handle = (IF err = "IndexError" THEN "closed" ELSE "none")

\* the write cell was ended by the error of its second row
C13_Witness ==
    /\ pc = "error" /\ err = "IndexError"
    /\ Len(visited) = 2
    /\ handle = "closed"

\* the row nodes of the first table after its leading row, in document order
DataRowNodes ==
    IF page = <<>> THEN <<>> ELSE [j \in 1..(Len(page[1]) - 1) |-> <<1, j + 1>>]

\* C14: in both notebooks the sequence the loop iterates over is the table's
\* rows in document order without the leading one (empty for a table of zero
\* or one row), and the leading row is never visited by the loop body.
C14_LeadingRowDropped ==
    /\ "rows" \in defined => rows = DataRowNodes
    /\ \A j \in 1..Len(visited) : visited[j] # <<1, 1>>

C16_Terminates ==
    /\ <>[](pc \in {"done", "error"})
    /\ [](pc = "done" => handle = "closed")
    /\ [](visited = SubSeq(rows, 1, Len(visited)))
    /\ [](pc = "done" => visited = rows)
    /\ [](pc = "fetch_wait" => ~ENABLED NextButReturn)

\* a completed run whose loop visited two rows
C16_Witness ==
    /\ pc = "done"
    /\ Len(rows) >= 2
    /\ visited = rows

\* the selected cell reads a name that no cell has bound
ReadsUnbound == Reads(nb, pc) \ defined # {}

\* C17 as stated: in any order of executions, a cell that reads an unbound name
\* ends in an error, and once the names are bound the cell that failed, run
\* again, ends without one.
RetrySucceeds ==
    /\ (ReadsUnbound /\ ~Select) => pc' = "error"
    /\ (pc = failed_cell /\ ~ReadsUnbound) => pc' # "error"

NameErrorIffUnbound ==
    /\ (ReadsUnbound /\ ~Select) =>
           (pc' = "error" /\ err' \in {"NameError", "OSError"})
    /\ (ReadsUnbound /\ pc # "write" /\ ~Select) => err' = "NameError"
    /\ (pc' = "error" /\ err' = "NameError") =>
           (ReadsUnbound /\ failed_cell' = pc)

ShortRows == {j \in 1..Len(rows) : RowAt(page, rows[j]).n < 3}

\* the position of the first of them; past the end when there is none
FirstShort ==
    IF ShortRows = {} THEN Len(rows) + 1
    ELSE CHOOSE j \in ShortRows : \A k \in ShortRows : j <= k

\* C18: when the Senate write cell has ended, the file holds the header and one
\* record for each row before the first row with fewer than 3 cells, each the
\* trimmed text of the row's first three cells; the run ended in that row's
\* error exactly when there is such a row, the loop went no further, and no
\* later row was written.
C18_ShortRowEndsRun ==
    (nb = "senate" /\ handle = "closed") =>
        /\ FileRecords =
               <<SenateHeaders>> \o [j \in 1..(FirstShort - 1) |-> TrimmedRow(j + 1)]
        /\ pc = (IF ShortRows = {} THEN "done" ELSE "error")
        /\ err = (IF ShortRows = {} THEN "none" ELSE "IndexError")
        /\ visited = SubSeq(rows, 1, IF ShortRows = {} THEN Len(rows) ELSE FirstShort)

\* a row of 4 cells was written, then a short row ended the run
C18_Witness ==
    /\ nb = "senate" /\ handle = "closed"
    /\ Len(rows) = 2
    /\ RowAt(page, rows[1]).n = 4
    /\ FirstShort = 2
    /\ Len(FileRecords) = 2 /\ Len(FileRecords[2]) = 3

====
